---------------------------- MODULE Spec2Model ----------------------------
(***************************************************************************)
(* Model of djixt2tiff.py: the per-page tag normalisation pipeline         *)
(* (_page_tagconv_it, pageprops, props2json) and the GPS decoder           *)
(* (convert_gpstag).                                                       *)
(*                                                                         *)
(* Python values are records with a "kind" field.  Python's floats are     *)
(* modelled by exact fractions <<num, den>> with den > 0; the inputs are   *)
(* chosen so that no comparison of the program sits within rounding        *)
(* distance of its threshold.                                              *)
(***************************************************************************)
EXTENDS Integers, Sequences, FiniteSets, TLC

VARIABLES
    page,       \* the tifffile page handed to pageprops (read-only)
    pc,         \* position of pageprops / props2json
    ti,         \* _page_tagconv_it: index of the tag the for loop is at
    pending,    \* _page_tagconv_it: items the inner for loop still has to visit
    yielded,    \* every pair the generator has yielded so far, in order
    atts,       \* pageprops: the dict atts, as an insertion-ordered list
    atts2,      \* props2json: the copy atts2
    json,       \* props2json: the serialised text
    err,        \* the exception that ended the call, or NoError
    xmlParsed,  \* tag indices for which XmlEt.fromstring was called
    gpsCalls,   \* number of calls of convert_gpstag made by the generator
    gpsTag,     \* convert_gpstag on its own: the argument
    gpsRes      \* convert_gpstag on its own: the outcome, or Pending

vars == <<page, pc, ti, pending, yielded, atts, atts2, json, err,
          xmlParsed, gpsCalls, gpsTag, gpsRes>>

pipeVars == <<page, pc, ti, pending, yielded, atts, atts2, json, err,
              xmlParsed, gpsCalls>>

-----------------------------------------------------------------------------
(* Bounds and program constants *)

MaxExtraTags == 2
MaxSubsec == 150

SeqLen == 6
LatMax == 90
LonMax == 180
AltRefSeaLevel == 0
SubsecUnit == 10000
MaxMicrosecond == 999999

-----------------------------------------------------------------------------
(* Python values *)

PyStr(s) == [kind |-> "str", text |-> s]
PyInt(n) == [kind |-> "int", n |-> n]
PyTuple(s) == [kind |-> "tuple", items |-> s]
PyBytes(s, a) == [kind |-> "bytes", text |-> s, ascii |-> a]
(* the bytes of an XMP packet: whether the leading and trailing <?xpacket ?> *)
(* instructions are there, the id attribute, what follows the trailing one,  *)
(* and the inner XML document                                                *)
XmpBytes(a, begin, id, xml, end, trail) ==
    [kind |-> "bytes", text |-> "<?xpacket", ascii |-> a, begin |-> begin,
     id |-> id, xml |-> xml, end |-> end, trail |-> trail]
Xml(wellformed, elems) == [wellformed |-> wellformed, elems |-> elems]
Elem(ns, name, text) == [ns |-> ns, name |-> name, text |-> text]
DateTime(y, mo, d, h, mi, s, us) ==
    [kind |-> "datetime", y |-> y, mo |-> mo, d |-> d, h |-> h, mi |-> mi,
     s |-> s, us |-> us]
EnumVal(name, code) == [kind |-> "enum", name |-> name, code |-> code]
PyDict(items) == [kind |-> "dict", items |-> items]
Item(k, v) == [k |-> k, v |-> v]
Tag(name, value) == [name |-> name, value |-> value]

NoError == [type |-> "none"]
Pending == [status |-> "pending"]
Return(v) == [status |-> "return", val |-> v]
Raise(e) == [status |-> "raise", err |-> e]

RuntimeError(msg, arg) == [type |-> "RuntimeError", msg |-> msg, arg |-> arg]
ValueError(msg) == [type |-> "ValueError", msg |-> msg]
ZeroDivisionError(at) == [type |-> "ZeroDivisionError", at |-> at]
UnicodeDecodeError(arg) == [type |-> "UnicodeDecodeError", arg |-> arg]
XmlParseError(arg) == [type |-> "ParseError", arg |-> arg]
TypeError(arg) == [type |-> "TypeError", arg |-> arg]
AttributeError(arg) == [type |-> "AttributeError", arg |-> arg]
KeyError(k, old, new) ==
    [type |-> "KeyError", key |-> k, old |-> old, new |-> new]

(* dict operations on an insertion-ordered list of items *)
HasKey(d, k) == \E i \in 1..Len(d) : d[i].k = k
Get(d, k) == d[CHOOSE i \in 1..Len(d) : d[i].k = k].v
Put(d, k, v) ==
    IF HasKey(d, k)
    THEN [i \in 1..Len(d) |-> IF d[i].k = k THEN Item(k, v) ELSE d[i]]
    ELSE Append(d, Item(k, v))

-----------------------------------------------------------------------------
(* Fractions standing for Python floats *)

Frac(n, d) == IF d < 0 THEN <<-n, -d>> ELSE <<n, d>>
FracGt(f, m) == f[1] > m * f[2]
FracLt(f, m) == f[1] < m * f[2]
NegKeep(f) == f
Neg(f) == <<-f[1], f[2]>>

(* y[0]/y[1] + (y[2]/y[3])/60.0 + (y[4]/y[5])/3600.0 *)
Dms(y) ==
    Frac(y[1]*y[4]*y[6]*3600 + y[3]*y[2]*y[6]*60 + y[5]*y[2]*y[4],
         y[2]*y[4]*y[6]*3600)
DivByZero(y) == y[2] = 0 \/ y[4] = 0 \/ y[6] = 0

LenOkAtLeast(y) == Len(y) >= SeqLen
LenOk(y) == Len(y) = SeqLen
OutOfRangeNoUpper(f, max) == FracLt(f, 0)
OutOfRange(f, max) == FracGt(f, max) \/ FracLt(f, 0)

WGS84Coords(lat, lon, alt) ==
    [kind |-> "WGS84Coords", lat |-> lat, lon |-> lon, alt |-> alt]

-----------------------------------------------------------------------------
(* convert_gpstag *)

gps_alt(gps, lat, lon) ==
    IF Get(gps, "GPSAltitudeRef") # PyInt(AltRefSeaLevel)
    THEN Raise(RuntimeError("GPSAltitudeRef", Get(gps, "GPSAltitudeRef")))
    ELSE LET z == Get(gps, "GPSAltitude").items IN
         IF z[2] = 0 THEN Raise(ZeroDivisionError("GPSAltitude"))
         ELSE Return(WGS84Coords(lat, lon, Frac(z[1], z[2])))

gps_lon(gps, lat) ==
    LET x == Get(gps, "GPSLongitude").items
        ref == Get(gps, "GPSLongitudeRef") IN
    IF ~LenOk(x) THEN Raise(RuntimeError("GPSLongitude", x))
    ELSE IF DivByZero(x) THEN Raise(ZeroDivisionError("GPSLongitude"))
    ELSE IF OutOfRange(Dms(x), LonMax) THEN Raise(RuntimeError("GPSLongitude", x))
    ELSE IF ref = PyStr("E") THEN gps_alt(gps, lat, Dms(x))
    ELSE IF ref = PyStr("W") THEN gps_alt(gps, lat, Neg(Dms(x)))
    ELSE Raise(RuntimeError("GPSLongitudeRef", ref))

gps_lat(gps) ==
    LET y == Get(gps, "GPSLatitude").items
        ref == Get(gps, "GPSLatitudeRef") IN
    IF ~LenOk(y) THEN Raise(RuntimeError("GPSLatitude", y))
    ELSE IF DivByZero(y) THEN Raise(ZeroDivisionError("GPSLatitude"))
    ELSE IF OutOfRange(Dms(y), LatMax) THEN Raise(RuntimeError("GPSLatitude", y))
    ELSE IF ref = PyStr("N") THEN gps_lon(gps, Dms(y))
    ELSE IF ref = PyStr("S") THEN gps_lon(gps, Neg(Dms(y)))
    ELSE Raise(RuntimeError("GPSLatitudeRef", ref))

convert_gpstag(tag) ==
    IF tag.name # "GPSTag" THEN Raise(ValueError(""))
    ELSE LET gps == tag.value.items IN
         IF Get(gps, "GPSMapDatum") # PyStr("WGS-84")
         THEN Raise(RuntimeError("GPSMapDatum", Get(gps, "GPSMapDatum")))
         ELSE gps_lat(gps)

GpsDict(datum, lat, latRef, lon, lonRef, alt, altRef) ==
    PyDict(<< Item("GPSLatitudeRef", PyStr(latRef)),
            Item("GPSLatitude", PyTuple(lat)),
            Item("GPSLongitudeRef", PyStr(lonRef)),
            Item("GPSLongitude", PyTuple(lon)),
            Item("GPSAltitudeRef", PyInt(altRef)),
            Item("GPSAltitude", PyTuple(alt)),
            Item("GPSMapDatum", PyStr(datum)) >>)

-----------------------------------------------------------------------------
(* _page_tagconv_it: the XMP envelope, the tag name pattern, the branches *)

XmpId == "W5M0MpCehiHzreSzNTczkc9d"
DjiNs == "http://www.dji.com/drone-dji/1.0/"
FlirNs == "http://www.dji.com/FLIR/1.0/"
RdfNs == "http://www.w3.org/1999/02/22-rdf-syntax-ns#"
NonWordNames == {"Gimbal-Roll"}

_xmp_re_any_id(b) ==
    /\ "id" \in DOMAIN b
    /\ b.begin /\ b.end /\ b.trail \in {"", "nul"}
_xmp_re(b) ==
    /\ "id" \in DOMAIN b
    /\ b.begin /\ b.id = XmpId /\ b.end /\ b.trail \in {"", "nul"}

_tagname_re(e) == e.name \notin NonWordNames

(* x.findall('.//{ns}*'): the descendants in that namespace, document order *)
findall(x, ns) == SelectSeq(x.elems, LAMBDA e : e.ns = ns)

(* chain(findall(dji), findall(flir)) *)
XmpElements(x) == findall(x, DjiNs) \o findall(x, FlirNs)

(* v.decode(encoding='ASCII') if isinstance(v, bytes) else v *)
DictValue(v) == IF v.kind = "bytes" THEN PyStr(v.text) ELSE v
DecodeFails(v) == v.kind = "bytes" /\ ~v.ascii

EnumCode(v) == PyInt(v.code)
EnumName(v) == PyStr(v.name)

HasTag(p, name) == \E i \in 1..Len(p.tags) : p.tags[i].name = name
TagByName(p, name) ==
    p.tags[CHOOSE i \in 1..Len(p.tags) :
              /\ p.tags[i].name = name
              /\ \A j \in 1..(i-1) : p.tags[j].name # name]

IdentOkEither(p) ==
    TagByName(p, "Make").value = PyStr("DJI")
        \/ TagByName(p, "Model").value = PyStr("XT2")
IdentOk(p) ==
    ~(TagByName(p, "Make").value # PyStr("DJI")
        \/ TagByName(p, "Model").value # PyStr("XT2"))

TagsExhaustedEarly(p, i) == i > Len(p.tags) - 1
TagsExhausted(p, i) == i > Len(p.tags)

-----------------------------------------------------------------------------
(* pageprops: the date/time fixup *)

(* datetime.strptime(s, '%Y:%m:%d %H:%M:%S') on the strings the pages carry *)
strptime(v) ==
    IF v.kind # "str" THEN Raise(TypeError(v))
    ELSE CASE v.text = "2022:05:01 12:00:00"
                -> Return(DateTime(2022, 5, 1, 12, 0, 0, 0))
           [] v.text = "2022:12:31 23:59:59"
                -> Return(DateTime(2022, 12, 31, 23, 59, 59, 0))
           [] OTHER -> Raise(ValueError("time data does not match format"))

(* int(s) on a str of decimal digits *)
int(v) ==
    IF v.kind = "int" THEN Return(v.n)
    ELSE IF v.kind = "str" /\ \E n \in 0..MaxSubsec : ToString(n) = v.text
    THEN Return(CHOOSE n \in 0..MaxSubsec : ToString(n) = v.text)
    ELSE Raise(ValueError("invalid literal for int()"))

(* dt.replace(microsecond=m) *)
replace_microsecond(dt, m) ==
    IF m < 0 \/ m > MaxMicrosecond
    THEN Raise(ValueError("microsecond must be in 0..999999"))
    ELSE Return([dt EXCEPT !.us = m])

fixup_datetime(a) ==
    IF ~HasKey(a, "DateTimeOriginal") THEN Return(a)
    ELSE LET dt == strptime(Get(a, "DateTimeOriginal")) IN
         IF dt.status = "raise" THEN dt
         ELSE IF ~HasKey(a, "SubsecTimeOriginal")
         THEN Return(Put(a, "DateTimeOriginal", dt.val))
         ELSE LET n == int(Get(a, "SubsecTimeOriginal")) IN
              IF n.status = "raise" THEN n
              ELSE LET r == replace_microsecond(dt.val, n.val * SubsecUnit) IN
                   IF r.status = "raise" THEN r
                   ELSE Return(Put(a, "DateTimeOriginal", r.val))

-----------------------------------------------------------------------------
(* props2json: the string forms and the serialisation *)

Pad2(n) == IF n < 10 THEN "0" \o ToString(n) ELSE ToString(n)
Pad3(n) == IF n < 10 THEN "00" \o ToString(n)
           ELSE IF n < 100 THEN "0" \o ToString(n) ELSE ToString(n)

(* dt.isoformat(sep=' ', timespec='milliseconds') *)
isoformat(dt) ==
    PyStr(ToString(dt.y) \o "-" \o Pad2(dt.mo) \o "-" \o Pad2(dt.d) \o " "
          \o Pad2(dt.h) \o ":" \o Pad2(dt.mi) \o ":" \o Pad2(dt.s) \o "."
          \o Pad3(dt.us \div 1000))

RECURSIVE FixedDigits(_, _, _)
(* <<digits, remainder>> of r/den to n decimal places, r < den *)
FixedDigits(r, den, n) ==
    IF n = 0 THEN <<<<>>, r>>
    ELSE LET rest == FixedDigits((r * 10) % den, den, n - 1) IN
         << <<(r * 10) \div den>> \o rest[1], rest[2] >>

RECURSIVE RoundUp(_)
RoundUp(ds) ==
    IF Len(ds) = 1 THEN <<ds[1] + 1>>
    ELSE IF ds[Len(ds)] < 9 THEN [ds EXCEPT ![Len(ds)] = @ + 1]
    ELSE Append(RoundUp(SubSeq(ds, 1, Len(ds) - 1)), 0)

RECURSIVE DigitText(_)
DigitText(ds) == IF ds = <<>> THEN "" ELSE ToString(Head(ds)) \o DigitText(Tail(ds))

(* f"{x:.nf}" *)
FormatFixed(f, n) ==
    LET a == IF f[1] < 0 THEN -f[1] ELSE f[1]
        fd == FixedDigits(a % f[2], f[2], n)
        ds == <<a \div f[2]>> \o fd[1]
        rs == IF 2 * fd[2] >= f[2] THEN RoundUp(ds) ELSE ds
    IN (IF f[1] < 0 THEN "-" ELSE "") \o ToString(rs[1]) \o "."
           \o DigitText(Tail(rs))

(* WGS84Coords.__str__, and str() of the other values *)
str(v) ==
    IF v.kind = "WGS84Coords"
    THEN PyStr(FormatFixed(v.lat, 9) \o "," \o FormatFixed(v.lon, 9) \o ","
               \o FormatFixed(v.alt, 2))
    ELSE IF v.kind = "int" THEN PyStr(ToString(v.n))
    ELSE v

Serializable(v) == v.kind \in {"str", "int", "tuple"}

RECURSIVE JoinInts(_)
JoinInts(s) ==
    IF s = <<>> THEN ""
    ELSE "    " \o ToString(Head(s)) \o (IF Len(s) > 1 THEN ",\n" ELSE "\n")
           \o JoinInts(Tail(s))

JsonValue(v) ==
    CASE v.kind = "str" -> "\"" \o v.text \o "\""
      [] v.kind = "int" -> ToString(v.n)
      [] v.kind = "tuple" -> "[\n" \o JoinInts(v.items) \o "  ]"

RECURSIVE JsonItems(_)
JsonItems(d) ==
    IF d = <<>> THEN ""
    ELSE "  \"" \o Head(d).k \o "\": " \o JsonValue(Head(d).v)
           \o (IF Len(d) > 1 THEN ",\n" ELSE "\n") \o JsonItems(Tail(d))

(* json.dumps(d, indent=2) *)
json_dumps(d) ==
    IF \E i \in 1..Len(d) : ~Serializable(d[i].v)
    THEN Raise(TypeError(d[CHOOSE i \in 1..Len(d) : ~Serializable(d[i].v)].v))
    ELSE Return(PyStr("{\n" \o JsonItems(d) \o "}"))

(* atts.copy(): the object the name atts2 is bound to, and the heap with it *)
dict_alias(heap, src) == [ref |-> src, heap |-> heap]
dict_copy(heap, src) ==
    [ref |-> "atts2", heap |-> [heap EXCEPT !.atts2 = heap[src]]]

(* atts2[k] = v *)
setitem(heap, ref, k, v) == [heap EXCEPT ![ref] = Put(@, k, v)]

props2json(a) ==
    LET c == dict_copy([atts |-> a, atts2 |-> <<>>], "atts")
        r == c.ref
        h1 == IF HasKey(c.heap[r], "DateTimeOriginal")
              THEN setitem(c.heap, r, "DateTimeOriginal",
                           isoformat(Get(c.heap[r], "DateTimeOriginal")))
              ELSE c.heap
        h2 == IF HasKey(h1[r], "Coords")
              THEN setitem(h1, r, "Coords", str(Get(h1[r], "Coords")))
              ELSE h1
    IN [atts |-> h2.atts, atts2 |-> h2[r], out |-> json_dumps(h2[r])]

-----------------------------------------------------------------------------
(* The pages pageprops is run on *)

GpsOk(latRef, lonRef) ==
    GpsDict("WGS-84", <<52, 1, 30, 1, 36, 1>>, latRef,
            <<13, 1, 24, 1, 0, 1>>, lonRef, <<3412, 100>>, 0)

XmpOkElems ==
    << Elem(RdfNs, "Description", ""),
       Elem(FlirNs, "TlinearGain", "0.04"),
       Elem(RdfNs, "li", "x"),
       Elem(DjiNs, "GimbalRollDegree", "+1.50") >>

XmpOf(id, xml) == XmpBytes(TRUE, TRUE, id, xml, TRUE, "nul")

TagPool ==
    { Tag("ImageWidth", PyInt(640)),
      Tag("Compression", EnumVal("NONE", 1)),
      Tag("CameraSerialNumber", PyBytes("297052", TRUE)),
      Tag("ExifTag", PyDict(<< Item("DateTimeOriginal", PyStr("2022:05:01 12:00:00")),
                               Item("SubsecTimeOriginal", PyStr("50")) >>)),
      Tag("ExifTag", PyDict(<< Item("SubsecTimeOriginal", PyStr("100")),
                               Item("DateTimeOriginal", PyStr("2022:12:31 23:59:59")) >>)),
      Tag("ExifTag", PyDict(<< Item("DateTimeOriginal", PyStr("2022:05:01 12:00:00")),
                               Item("UserComment", PyBytes("IR", TRUE)),
                               Item("ImageWidth", PyInt(641)) >>)),
      Tag("ExifTag", PyDict(<< Item("FNumber", PyTuple(<<14, 10>>)),
                               Item("MakerNote", PyBytes("", FALSE)),
                               Item("DateTimeOriginal", PyStr("0000:00:00 00:00:00")) >>)),
      Tag("InteroperabilityTag", PyDict(<<>>)),
      Tag("GPSTag", GpsOk("N", "E")),
      Tag("GPSTag", GpsOk("S", "W")),
      Tag("GPSTag", GpsDict("WGS-84", <<52, 1, 30, 1, 36>>, "N",
                            <<13, 1, 24, 1, 0, 1>>, "E", <<3412, 100>>, 0)),
      Tag("XMP", XmpOf(XmpId, Xml(TRUE, XmpOkElems))),
      Tag("XMP", XmpOf("W5M0MpCehiHzreSzNTczkc9e", Xml(TRUE, XmpOkElems))),
      Tag("XMP", XmpOf(XmpId, Xml(FALSE, XmpOkElems))),
      Tag("XMP", XmpBytes(FALSE, TRUE, XmpId, Xml(TRUE, XmpOkElems), TRUE, "")),
      Tag("XMP", XmpBytes(TRUE, TRUE, XmpId, Xml(TRUE, <<>>), FALSE, "")),
      Tag("XMP", PyDict(<< Item("Yaw", PyStr("2")) >>)),
      Tag("XMP", XmpOf(XmpId, Xml(TRUE, << Elem(DjiNs, "Yaw", "2"),
                                           Elem(DjiNs, "Gimbal-Roll", "1"),
                                           Elem(DjiNs, "Pitch", "3") >>))),
      Tag("XMP", XmpOf(XmpId, Xml(TRUE, << Elem(FlirNs, "Coords", "here"),
                                           Elem(DjiNs, "ImageWidth", "640"),
                                           Elem(FlirNs, "ImageWidth", "336") >>))) }

RECURSIVE SeqsUpTo(_, _)
SeqsUpTo(S, n) ==
    IF n = 0 THEN {<<>>}
    ELSE LET shorter == SeqsUpTo(S, n - 1) IN
         shorter \cup {Append(q, x) : q \in shorter, x \in S}

Pages ==
    { [tags |-> <<Tag("Make", PyStr(mk)), Tag("Model", PyStr(md))>> \o rest] :
        mk \in {"DJI", "FLIR"}, md \in {"XT2", "Zenmuse XT"},
        rest \in SeqsUpTo(TagPool, MaxExtraTags) }

IdleTag == Tag("GPSTag", GpsOk("N", "E"))

-----------------------------------------------------------------------------
(* pageprops driving _page_tagconv_it, then props2json *)

Init ==
    /\ page \in Pages
    /\ pc = "start"
    /\ ti = 1
    /\ pending = <<>>
    /\ yielded = <<>>
    /\ atts = <<>>
    /\ atts2 = <<>>
    /\ json = ""
    /\ err = NoError
    /\ xmlParsed = {}
    /\ gpsCalls = 0
    /\ gpsTag = IdleTag
    /\ gpsRes = Pending

Throw(e) == pc' = "raised" /\ err' = e

(* if k in atts *)
AlreadyExistsNever(a, k) == FALSE
AlreadyExists(a, k) == HasKey(a, k)

(* The generator yields (k, v) and pageprops stores it or raises KeyError;  *)
(* pcNext, tiNext and pendingNext are where the generator goes on from when *)
(* it is asked for the next pair.                                           *)
Yield(k, v, pcNext, tiNext, pendingNext) ==
    /\ yielded' = Append(yielded, [k |-> k, v |-> v, at |-> ti])
    /\ IF AlreadyExists(atts, k)
       THEN /\ Throw(KeyError(k, Get(atts, k), v))
            /\ UNCHANGED <<atts, ti, pending>>
       ELSE /\ atts' = Append(atts, Item(k, v))
            /\ pc' = pcNext /\ ti' = tiNext /\ pending' = pendingNext
            /\ err' = err

CheckMakeModel ==
    /\ pc = "start"
    /\ IF IdentOk(page) THEN pc' = "tags" /\ err' = err
       ELSE Throw(RuntimeError("This is not a DJI XT2",
                    <<TagByName(page, "Make").value, TagByName(page, "Model").value>>))
    /\ UNCHANGED <<page, ti, pending, yielded, atts, atts2, json, xmlParsed,
                   gpsCalls, gpsTag, gpsRes>>

TagXMP ==
    /\ pc = "tags" /\ ~TagsExhausted(page, ti)
    /\ page.tags[ti].name = "XMP"
    /\ LET b == page.tags[ti].value IN
       IF b.kind # "bytes"
       THEN Throw(AttributeError(b)) /\ UNCHANGED <<pending, xmlParsed>>
       ELSE IF ~b.ascii
       THEN Throw(UnicodeDecodeError(b)) /\ UNCHANGED <<pending, xmlParsed>>
       ELSE IF ~_xmp_re(b)
       THEN Throw(RuntimeError("Failed to parse XMP", b))
                /\ UNCHANGED <<pending, xmlParsed>>
       ELSE /\ xmlParsed' = xmlParsed \cup {ti}
            /\ IF ~b.xml.wellformed
               THEN Throw(XmlParseError(b)) /\ UNCHANGED pending
               ELSE pc' = "xmp" /\ pending' = XmpElements(b.xml) /\ err' = err
    /\ UNCHANGED <<page, ti, yielded, atts, atts2, json, gpsCalls, gpsTag, gpsRes>>

XmpElement ==
    /\ pc = "xmp"
    /\ IF pending = <<>>
       THEN /\ pc' = "tags" /\ ti' = ti + 1
            /\ UNCHANGED <<pending, yielded, atts, err>>
       ELSE LET e == Head(pending) IN
            IF ~_tagname_re(e)
            THEN /\ Throw(RuntimeError("Failed to parse tag name", e))
                 /\ UNCHANGED <<ti, pending, yielded, atts>>
            ELSE Yield(e.name, PyStr(e.text), "xmp", ti, Tail(pending))
    /\ UNCHANGED <<page, atts2, json, xmlParsed, gpsCalls, gpsTag, gpsRes>>

TagDict ==
    /\ pc = "tags" /\ ~TagsExhausted(page, ti)
    /\ page.tags[ti].name # "XMP"
    /\ page.tags[ti].value.kind = "dict"
    /\ pc' = "dict" /\ pending' = page.tags[ti].value.items
    /\ UNCHANGED <<page, ti, yielded, atts, atts2, json, err, xmlParsed,
                   gpsCalls, gpsTag, gpsRes>>

DictItem ==
    /\ pc = "dict"
    /\ IF pending = <<>>
       THEN /\ pc' = "tags" /\ ti' = ti + 1
            /\ UNCHANGED <<pending, yielded, atts, err>>
       ELSE LET it == Head(pending) IN
            IF DecodeFails(it.v)
            THEN /\ Throw(UnicodeDecodeError(it.v))
                 /\ UNCHANGED <<ti, pending, yielded, atts>>
            ELSE Yield(it.k, DictValue(it.v), "dict", ti, Tail(pending))
    /\ UNCHANGED <<page, atts2, json, xmlParsed, gpsCalls, gpsTag, gpsRes>>

TagEnum ==
    /\ pc = "tags" /\ ~TagsExhausted(page, ti)
    /\ page.tags[ti].name # "XMP"
    /\ page.tags[ti].value.kind = "enum"
    /\ Yield(page.tags[ti].name, EnumName(page.tags[ti].value), "tags", ti + 1, pending)
    /\ UNCHANGED <<page, atts2, json, xmlParsed, gpsCalls, gpsTag, gpsRes>>

TagOther ==
    /\ pc = "tags" /\ ~TagsExhausted(page, ti)
    /\ page.tags[ti].name # "XMP"
    /\ page.tags[ti].value.kind \notin {"dict", "enum"}
    /\ Yield(page.tags[ti].name, page.tags[ti].value, "tags", ti + 1, pending)
    /\ UNCHANGED <<page, atts2, json, xmlParsed, gpsCalls, gpsTag, gpsRes>>

GpsStage ==
    /\ pc = "tags" /\ TagsExhausted(page, ti)
    /\ IF HasTag(page, "GPSTag")
       THEN LET r == convert_gpstag(TagByName(page, "GPSTag")) IN
            /\ gpsCalls' = gpsCalls + 1
            /\ IF r.status = "raise"
               THEN Throw(r.err) /\ UNCHANGED <<ti, pending, yielded, atts>>
               ELSE Yield("Coords", r.val, "fixup", ti, pending)
       ELSE /\ pc' = "fixup"
            /\ UNCHANGED <<ti, pending, yielded, atts, err, gpsCalls>>
    /\ UNCHANGED <<page, atts2, json, xmlParsed, gpsTag, gpsRes>>

FixupDate ==
    /\ pc = "fixup"
    /\ LET r == fixup_datetime(atts) IN
       IF r.status = "raise"
       THEN Throw(r.err) /\ UNCHANGED atts
       ELSE pc' = "returned" /\ atts' = r.val /\ err' = err
    /\ UNCHANGED <<page, ti, pending, yielded, atts2, json, xmlParsed,
                   gpsCalls, gpsTag, gpsRes>>

Props2Json ==
    /\ pc = "returned"
    /\ LET r == props2json(atts) IN
       /\ atts' = r.atts
       /\ atts2' = r.atts2
       /\ IF r.out.status = "raise"
          THEN Throw(r.out.err) /\ UNCHANGED json
          ELSE pc' = "json" /\ json' = r.out.val.text /\ err' = err
    /\ UNCHANGED <<page, ti, pending, yielded, xmlParsed, gpsCalls, gpsTag, gpsRes>>

Next ==
    \/ CheckMakeModel
    \/ TagXMP
    \/ XmpElement
    \/ TagDict
    \/ DictItem
    \/ TagEnum
    \/ TagOther
    \/ GpsStage
    \/ FixupDate
    \/ Props2Json

Spec == Init /\ [][Next]_vars

-----------------------------------------------------------------------------
(* convert_gpstag on its own, over GPS tag groups of every shape *)

LatSeqs ==
    { <<d[1], d[2], m[1], m[2], s[1], s[2]>> :
        d \in {<<0, 1>>, <<52, 1>>, <<90, 1>>, <<91, 1>>, <<180, 2>>, <<-1, 1>>, <<52, 0>>},
        m \in {<<0, 1>>, <<30, 1>>},
        s \in {<<0, 1>>, <<36, 1>>} }
      \cup { <<52, 1, 30, 1, 36>>, <<52, 1, 30, 1, 36, 1, 7>>, <<>> }

LonSeqs ==
    { <<d[1], d[2], m[1], m[2], s[1], s[2]>> :
        d \in {<<0, 1>>, <<13, 1>>, <<100, 1>>, <<180, 1>>, <<181, 1>>, <<-1, 1>>, <<13, 0>>},
        m \in {<<0, 1>>, <<30, 1>>},
        s \in {<<0, 1>>, <<36, 1>>} }
      \cup { <<13, 1, 24, 1, 0>>, <<13, 1, 24, 1, 0, 1, 7>>, <<>> }

GpsTags ==
    { Tag("GPSTag", GpsDict(datum, lat, latRef, lon, lonRef, alt, altRef)) :
        datum \in {"WGS-84", "TOKYO"}, lat \in LatSeqs, latRef \in {"N", "S", "n"},
        lon \in LonSeqs, lonRef \in {"E", "W", "O"},
        alt \in {<<3412, 100>>, <<0, 0>>}, altRef \in {0, 1} }
      \cup { Tag("ExifTag", GpsOk("N", "E")),
             Tag("ExifTag", GpsDict("TOKYO", <<91, 1, 0, 1, 0, 1>>, "n",
                                    <<>>, "O", <<0, 0>>, 1)) }

InitGps ==
    /\ page = [tags |-> <<>>]
    /\ pc = "idle"
    /\ ti = 1
    /\ pending = <<>>
    /\ yielded = <<>>
    /\ atts = <<>>
    /\ atts2 = <<>>
    /\ json = ""
    /\ err = NoError
    /\ xmlParsed = {}
    /\ gpsCalls = 0
    /\ gpsTag \in GpsTags
    /\ gpsRes = Pending

ConvertGps ==
    /\ gpsRes = Pending
    /\ gpsRes' = convert_gpstag(gpsTag)
    /\ UNCHANGED <<pipeVars, gpsTag>>

NextGps == ConvertGps

SpecGps == InitGps /\ [][NextGps]_vars

-----------------------------------------------------------------------------
(* Properties of pageprops, _page_tagconv_it and props2json (under Spec) *)

NTags == Len(page.tags)
PairOf(y) == Item(y.k, y.v)
PairsOf(ys) == [i \in 1..Len(ys) |-> PairOf(ys[i])]
YieldedAt(t) == PairsOf(SelectSeq(yielded, LAMBDA y : y.at = t))
IsPrefix(a, b) == Len(a) <= Len(b) /\ a = SubSeq(b, 1, Len(a))

RECURSIVE Concat(_)
Concat(ss) == IF ss = <<>> THEN <<>> ELSE Head(ss) \o Concat(Tail(ss))

(* what the dispatch of one tag is to yield, branch by branch *)
ExpectedPairs(tag) ==
    IF tag.name = "XMP" /\ tag.value.kind # "bytes"
    THEN <<>>
    ELSE IF tag.name = "XMP"
    THEN LET es == SelectSeq(tag.value.xml.elems, LAMBDA e : e.ns = DjiNs)
                     \o SelectSeq(tag.value.xml.elems, LAMBDA e : e.ns = FlirNs)
         IN [i \in 1..Len(es) |-> Item(es[i].name, PyStr(es[i].text))]
    ELSE IF tag.value.kind = "dict"
    THEN [i \in 1..Len(tag.value.items) |->
            LET it == tag.value.items[i] IN
            Item(it.k, IF it.v.kind = "bytes"
                       THEN [kind |-> "str", text |-> it.v.text] ELSE it.v)]
    ELSE IF tag.value.kind = "enum"
    THEN <<Item(tag.name, [kind |-> "str", text |-> tag.value.name])>>
    ELSE <<Item(tag.name, tag.value)>>

AllTagPairs == Concat([t \in 1..NTags |-> ExpectedPairs(page.tags[t])])

PageMake == page.tags[1].value.text
PageModel == page.tags[2].value.text
PageHasGPSTag == \E t \in 1..NTags : page.tags[t].name = "GPSTag"

(* C1: a key that is yielded a second time raises the duplicate-key error at *)
(* that second pair, naming the key, the stored value and the new value, and *)
(* the stored value stays; the map holds every yielded pair exactly as it    *)
(* was first yielded, and when pageprops returns its keys are the yielded    *)
(* keys, each yielded exactly once.                                          *)
C1_DuplicateKeyIsError ==
    /\ \A i, j \in 1..Len(yielded) :
          (i < j /\ yielded[i].k = yielded[j].k) =>
             /\ j = Len(yielded)
             /\ pc = "raised"
             /\ err = KeyError(yielded[j].k, yielded[i].v, yielded[j].v)
             /\ atts = PairsOf(SubSeq(yielded, 1, j - 1))
    /\ (pc \in {"tags", "xmp", "dict", "fixup"}) => atts = PairsOf(yielded)
    /\ (pc \in {"returned", "json"}) =>
          /\ Len(atts) = Len(yielded)
          /\ \A i \in 1..Len(atts) :
                /\ atts[i].k = yielded[i].k
                /\ Cardinality({j \in 1..Len(yielded) : yielded[j].k = atts[i].k}) = 1
                /\ atts[i].k # "DateTimeOriginal" => atts[i].v = yielded[i].v

C1_Witness ==
    /\ pc = "raised" /\ err.type = "KeyError"
    /\ err.key = "ImageWidth" /\ err.old = PyInt(640) /\ err.new = PyInt(641)
    /\ HasKey(atts, "ImageWidth") /\ Get(atts, "ImageWidth") = PyInt(640)

(* C2: a page whose Make is not 'DJI' or whose Model is not 'XT2' is rejected *)
(* with the identification error before any tag is processed: nothing is     *)
(* yielded, parsed, decoded or stored.                                       *)
C2_RejectedBeforeAnyTag ==
    (PageMake # "DJI" \/ PageModel # "XT2") =>
       /\ yielded = <<>> /\ atts = <<>> /\ xmlParsed = {} /\ gpsCalls = 0
       /\ ti = 1 /\ pending = <<>>
       /\ pc \in {"start", "raised"}
       /\ pc = "raised" =>
             (err.type = "RuntimeError" /\ err.msg = "This is not a DJI XT2")

C2_Witness ==
    /\ pc = "raised" /\ err.type = "RuntimeError"
    /\ err.msg = "This is not a DJI XT2"
    /\ PageMake = "DJI" /\ PageModel # "XT2"
    /\ \E t \in 1..NTags : page.tags[t].name = "XMP"
    /\ PageHasGPSTag

-----------------------------------------------------------------------------
(* calendar arithmetic for the timestamp the fixup is to produce *)

IsLeap(y) == (y % 4 = 0 /\ y % 100 # 0) \/ y % 400 = 0
DaysIn(y, mo) ==
    IF mo = 2 THEN (IF IsLeap(y) THEN 29 ELSE 28)
    ELSE IF mo \in {4, 6, 9, 11} THEN 30 ELSE 31

(* dt + n seconds, n < 60 *)
AddSeconds(dt, n) ==
    LET s1 == dt.s + n
        mi1 == dt.mi + s1 \div 60
        h1 == dt.h + mi1 \div 60
        d1 == dt.d + h1 \div 24
        dover == d1 > DaysIn(dt.y, dt.mo)
        mo1 == IF dover THEN dt.mo + 1 ELSE dt.mo
    IN [dt EXCEPT !.s = s1 % 60, !.mi = mi1 % 60, !.h = h1 % 24,
                  !.d = IF dover THEN 1 ELSE d1,
                  !.mo = IF mo1 > 12 THEN 1 ELSE mo1,
                  !.y = IF mo1 > 12 THEN dt.y + 1 ELSE dt.y]

(* dt + timedelta(microseconds=us) *)
AddMicros(dt, us) ==
    LET total == dt.us + us IN
    [AddSeconds(dt, total \div (MaxMicrosecond + 1)) EXCEPT
        !.us = total % (MaxMicrosecond + 1)]

(* C6: with DateTimeOriginal and SubsecTimeOriginal both present and s a    *)
(* non-negative integer, the fixup stores the parsed timestamp plus         *)
(* s x 10 ms, carrying into the seconds.                                    *)
C6_SubsecAddsTenMs ==
    [][ ( /\ pc = "fixup"
          /\ HasKey(atts, "DateTimeOriginal") /\ HasKey(atts, "SubsecTimeOriginal")
          /\ strptime(Get(atts, "DateTimeOriginal")).status = "return"
          /\ int(Get(atts, "SubsecTimeOriginal")).status = "return" )
        => ( /\ pc' = "returned"
             /\ Get(atts', "DateTimeOriginal") =
                   AddMicros(strptime(Get(atts, "DateTimeOriginal")).val,
                             int(Get(atts, "SubsecTimeOriginal")).val * 10000) )
      ]_vars

(* C7: props2json leaves the map it is given unchanged: same keys, same     *)
(* values, DateTimeOriginal still the timestamp and Coords the Coordinate.  *)
C7_Props2JsonKeepsAtts == [][pc = "returned" => atts' = atts]_vars

C7_Witness ==
    /\ pc = "json"
    /\ HasKey(atts, "DateTimeOriginal") /\ HasKey(atts, "Coords")
    /\ Get(atts, "DateTimeOriginal").kind = "datetime"
    /\ Get(atts, "Coords").kind = "WGS84Coords"
    /\ Get(atts2, "DateTimeOriginal").kind = "str"
    /\ Get(atts2, "Coords").kind = "str"

(* C8: the pair synthesised from the GPSTag is yielded at most once, only   *)
(* when the page has a GPSTag, under the key 'Coords', and as the last pair *)
(* after the pairs of every tag; convert_gpstag is not called, and none of  *)
(* its errors is raised, before every tag has been processed.               *)
SynthesisedAt == {i \in 1..Len(yielded) : yielded[i].at > NTags}
C9_OneBranchPerTag ==
    /\ \A t \in 1..NTags :
          /\ IsPrefix(YieldedAt(t), ExpectedPairs(page.tags[t]))
          /\ t < ti => YieldedAt(t) = ExpectedPairs(page.tags[t])
          /\ t > ti => YieldedAt(t) = <<>>
    /\ \A i, j \in 1..Len(yielded) : i < j => yielded[i].at <= yielded[j].at

C9_Witness ==
    /\ pc = "fixup" /\ NTags = 4
    /\ page.tags[3].name = "ExifTag" /\ page.tags[4].name = "Compression"
    /\ \E i \in 1..Len(yielded) :
          yielded[i].k = "UserComment" /\ yielded[i].v = PyStr("IR")
    /\ yielded[Len(yielded)] =
          [k |-> "Compression", v |-> PyStr("NONE"), at |-> 4]

(* C10: an XMP payload whose envelope does not match raises the             *)
(* envelope-mismatch error before any XML parsing and yields no pair; one   *)
(* with a matching envelope and malformed XML raises the malformed-XML      *)
(* error and yields no pair.                                                *)
EnvelopeMatches(b) ==
    b.begin /\ b.id = "W5M0MpCehiHzreSzNTczkc9d" /\ b.end /\ b.trail \in {"", "nul"}
C10_XmpAllOrNothing ==
    \A t \in 1..NTags :
       LET b == page.tags[t].value IN
       (page.tags[t].name = "XMP" /\ b.kind = "bytes" /\ b.ascii) =>
          /\ ~EnvelopeMatches(b) =>
                /\ t \notin xmlParsed
                /\ YieldedAt(t) = <<>>
                /\ ti <= t
                /\ (ti = t /\ pc # "tags") =>
                      (pc = "raised" /\ err = RuntimeError("Failed to parse XMP", b))
          /\ (EnvelopeMatches(b) /\ ~b.xml.wellformed) =>
                /\ YieldedAt(t) = <<>>
                /\ ti <= t
                /\ (ti = t /\ pc # "tags") =>
                      (pc = "raised" /\ err = XmlParseError(b) /\ t \in xmlParsed)

C10_Witness ==
    /\ pc = "raised" /\ err.type = "RuntimeError"
    /\ err.msg = "Failed to parse XMP"
    /\ err.arg.id # XmpId /\ err.arg.begin /\ err.arg.end
    /\ ti = 4 /\ Len(yielded) > 2

-----------------------------------------------------------------------------
(* Properties of convert_gpstag (under SpecGps), stated on its argument *)

InG == gpsTag.value.items
InField(k) == InG[CHOOSE i \in 1..Len(InG) : InG[i].k = k].v
InDatum == InField("GPSMapDatum").text
InLat == InField("GPSLatitude").items
InLatRef == InField("GPSLatitudeRef").text
InLon == InField("GPSLongitude").items
InLonRef == InField("GPSLongitudeRef").text
InAlt == InField("GPSAltitude").items
InAltRef == InField("GPSAltitudeRef").n

(* the magnitude a/b + (c/d)/60 + (e/f)/3600 as the fraction MagNum/MagDen; *)
(* the denominators of the tag format are unsigned                          *)
MagDefined(y) == Len(y) = 6 /\ y[2] > 0 /\ y[4] > 0 /\ y[6] > 0
MagNum(y) == y[1]*y[4]*y[6]*3600 + y[3]*y[2]*y[6]*60 + y[5]*y[2]*y[4]
MagDen(y) == y[2]*y[4]*y[6]*3600
MagAbove(y, m) == MagNum(y) > m * MagDen(y)
MagBelowZero(y) == MagNum(y) < 0
MagInRange(y, m) == MagDefined(y) /\ ~MagAbove(y, m) /\ ~MagBelowZero(y)

GpsCalled == gpsRes # Pending /\ gpsTag.name = "GPSTag"
GpsRaised(msg, arg) == gpsRes = Raise(RuntimeError(msg, arg))

PassesChecks ==
    /\ InDatum = "WGS-84"
    /\ MagInRange(InLat, 90) /\ MagInRange(InLon, 180)
    /\ InAltRef = 0

(* C3: for a GPS tag group that passes the datum, length, range and         *)
(* altitude-reference checks, 'N' ('E') gives the magnitude itself, which   *)
(* is >= 0, 'S' ('W') gives the negated magnitude, any other reference      *)
(* raises the invalid-reference error; a returned Coordinate has            *)
(* lat in [-90, 90] and lon in [-180, 180].                                 *)
C3_SignFollowsReference ==
    GpsCalled =>
      /\ gpsRes.status = "return" =>
            LET c == gpsRes.val IN
            /\ c.lat[2] > 0 /\ c.lon[2] > 0
            /\ -90 * c.lat[2] <= c.lat[1] /\ c.lat[1] <= 90 * c.lat[2]
            /\ -180 * c.lon[2] <= c.lon[1] /\ c.lon[1] <= 180 * c.lon[2]
      /\ PassesChecks =>
            /\ InLatRef \notin {"N", "S"} =>
                  GpsRaised("GPSLatitudeRef", PyStr(InLatRef))
            /\ (InLatRef \in {"N", "S"} /\ InLonRef \notin {"E", "W"}) =>
                  GpsRaised("GPSLongitudeRef", PyStr(InLonRef))
            /\ (InLatRef \in {"N", "S"} /\ InLonRef \in {"E", "W"} /\ InAlt[2] # 0) =>
                  /\ gpsRes.status = "return"
                  /\ InLatRef = "N" =>
                        /\ gpsRes.val.lat = <<MagNum(InLat), MagDen(InLat)>>
                        /\ gpsRes.val.lat[1] >= 0
                  /\ InLatRef = "S" =>
                        gpsRes.val.lat = <<-MagNum(InLat), MagDen(InLat)>>
                  /\ InLonRef = "E" =>
                        /\ gpsRes.val.lon = <<MagNum(InLon), MagDen(InLon)>>
                        /\ gpsRes.val.lon[1] >= 0
                  /\ InLonRef = "W" =>
                        gpsRes.val.lon = <<-MagNum(InLon), MagDen(InLon)>>

C3_Witness ==
    /\ GpsCalled /\ PassesChecks /\ gpsRes.status = "return"
    /\ InLatRef = "S" /\ InLonRef = "W"
    /\ gpsRes.val.lat[1] < 0 /\ gpsRes.val.lon[1] < 0

(* C4 as claimed, taken on groups with the expected datum and two         *)
(* sequences that decode: a latitude magnitude above 90 or a longitude      *)
(* magnitude above 180 always raises a range error, whatever the            *)
(* references are.                                                          *)
C4_RangeErrorAlways ==
    (GpsCalled /\ InDatum = "WGS-84" /\ MagDefined(InLat) /\ MagDefined(InLon)) =>
      ( (MagAbove(InLat, 90) \/ MagAbove(InLon, 180))
        => ( /\ gpsRes.status = "raise"
             /\ gpsRes.err.type = "RuntimeError"
             /\ gpsRes.err.msg \in {"GPSLatitude", "GPSLongitude"} ) )

(* C4 as amended: once every check before it in the validation order has    *)
(* passed, a magnitude above the limit raises the range error of that       *)
(* coordinate whatever its own and the later references are; in every case  *)
(* such a magnitude makes the call raise and no Coordinate is returned.     *)
C4_RangeErrorInOrder ==
    GpsCalled =>
      /\ (InDatum = "WGS-84" /\ MagDefined(InLat) /\ MagAbove(InLat, 90)) =>
            GpsRaised("GPSLatitude", InLat)
      /\ ( /\ InDatum = "WGS-84" /\ MagInRange(InLat, 90) /\ InLatRef \in {"N", "S"}
           /\ MagDefined(InLon) /\ MagAbove(InLon, 180) ) =>
            GpsRaised("GPSLongitude", InLon)
      /\ ( (MagDefined(InLat) /\ MagAbove(InLat, 90))
             \/ (MagDefined(InLon) /\ MagAbove(InLon, 180)) ) =>
            gpsRes.status = "raise"

C4_Witness ==
    /\ GpsCalled
    /\ MagDefined(InLon) /\ MagAbove(InLon, 180) /\ InLonRef = "O"
    /\ InLatRef = "S" /\ InAltRef = 1
    /\ GpsRaised("GPSLongitude", InLon)

(* the eight checks, each stated on the argument alone *)
CheckViolated(i) ==
    CASE i = 1 -> InDatum # "WGS-84"
      [] i = 2 -> Len(InLat) # 6
      [] i = 3 -> MagDefined(InLat) /\ (MagAbove(InLat, 90) \/ MagBelowZero(InLat))
      [] i = 4 -> InLatRef \notin {"N", "S"}
      [] i = 5 -> Len(InLon) # 6
      [] i = 6 -> MagDefined(InLon) /\ (MagAbove(InLon, 180) \/ MagBelowZero(InLon))
      [] i = 7 -> InLonRef \notin {"E", "W"}
      [] i = 8 -> InAltRef # 0
CheckError(i) ==
    CASE i = 1 -> RuntimeError("GPSMapDatum", PyStr(InDatum))
      [] i = 2 -> RuntimeError("GPSLatitude", InLat)
      [] i = 3 -> RuntimeError("GPSLatitude", InLat)
      [] i = 4 -> RuntimeError("GPSLatitudeRef", PyStr(InLatRef))
      [] i = 5 -> RuntimeError("GPSLongitude", InLon)
      [] i = 6 -> RuntimeError("GPSLongitude", InLon)
      [] i = 7 -> RuntimeError("GPSLongitudeRef", PyStr(InLonRef))
      [] i = 8 -> RuntimeError("GPSAltitudeRef", PyInt(InAltRef))
FirstViolated(i) == CheckViolated(i) /\ \A j \in 1..(i - 1) : ~CheckViolated(j)
(* a zero denominator met while decoding, before check i is reached *)
ZeroDenBefore(i) ==
    \/ i > 3 /\ Len(InLat) = 6 /\ ~MagDefined(InLat)
    \/ i > 6 /\ Len(InLon) = 6 /\ ~MagDefined(InLon)

(* C5: the checks run in the order datum, latitude length, latitude range,  *)
(* latitude reference, longitude length, longitude range, longitude         *)
(* reference, altitude reference, and the error raised is that of the first *)
(* violated check; a latitude or longitude sequence whose length is not 6   *)
(* always raises, and a returned Coordinate is computed from all six        *)
(* elements of each sequence.                                               *)
C5_FirstViolatedCheckRaises ==
    GpsCalled =>
      /\ \A i \in 1..8 :
            (FirstViolated(i) /\ ~ZeroDenBefore(i)) => gpsRes = Raise(CheckError(i))
      /\ (gpsRes.status = "raise" /\ gpsRes.err.type = "RuntimeError") =>
            \E i \in 1..8 : FirstViolated(i) /\ gpsRes.err = CheckError(i)
      /\ (Len(InLat) # 6 \/ Len(InLon) # 6) => gpsRes.status = "raise"
      /\ gpsRes.status = "return" =>
            /\ Len(InLat) = 6 /\ Len(InLon) = 6
            /\ \A i \in 1..8 : ~CheckViolated(i)
            /\ gpsRes.val.lat \in {<<MagNum(InLat), MagDen(InLat)>>,
                                   <<-MagNum(InLat), MagDen(InLat)>>}
            /\ gpsRes.val.lon \in {<<MagNum(InLon), MagDen(InLon)>>,
                                   <<-MagNum(InLon), MagDen(InLon)>>}

C5_Witness ==
    /\ GpsCalled
    /\ InDatum = "WGS-84" /\ Len(InLat) = 5 /\ InLatRef = "n"
    /\ Len(InLon) = 7 /\ InAltRef = 1
    /\ GpsRaised("GPSLatitude", InLat)

=============================================================================
